---- MODULE Spec2Model ----
(***************************************************************************)
(* The visualization output plugin of MPD: VisualizationOutput (the        *)
(* facade), VisualizationServer (accept + reaper), VisualizationClient     *)
(* (one echo connection) and Visualization (the shared state).             *)
(*                                                                         *)
(* The I/O thread's event loop runs one handler at a time; each handler is *)
(* one action.  The control thread's Enable/Disable/destructor are split   *)
(* at the points where they wait for, or hand over to, the I/O thread.     *)
(***************************************************************************)
EXTENDS Integers, Sequences, FiniteSets, TLC

\* ------------------------------------------------------------------ bounds

\* number of sockets the listener hands to OnAccept over a run
MaxConns == 3

\* total number of bytes the peers send over a run
MaxBytes == 2

\* number of calls of Play over a run
MaxPlays == 3

\* largest size of a chunk handed to Play
MaxSize == 2

\* the values of max_clients the model is configured with (0 = unlimited)
CfgClients == {0, 1}

\* ------------------------------------------------------- program constants

\* reaper.Schedule(std::chrono::seconds(3))
ReapInterval == 3

\* 0 == (num_calls % 500)
ReportEvery == 500

Ids == 1..MaxConns
\* the peers' bytes are numbered in the order they are sent, so that a
\* byte lost, repeated or out of place shows
Byte == 1..MaxBytes

READ == "READ"
WRITE == "WRITE"
HANGUP == "HANGUP"
ERROR == "ERROR"

VARIABLES
    max_clients,  \* VisualizationServer::max_clients
    clients,      \* VisualizationServer::clients, a list of client ids
    conn,         \* per accepted descriptor: the client object and its socket
    reaper,       \* VisualizationServer::reaper: -1 idle, else time left
    listening,    \* ServerSocket is open
    pserver,      \* VisualizationOutput::pserver is non-null
    pvis,         \* VisualizationOutput::pvis is non-null
    pc,           \* position of the control thread
    task,         \* the task BlockingCall posted: "none", "open", "close"
    phase,        \* "on" from a call of Enable() to the return of Disable()
    nextId,       \* next descriptor accept() returns
    budget,       \* bytes the peers may still send
    watch,        \* the histories kept: what is recorded in last, "age"
    closedAge,    \* history: time since the oldest unreaped client closed,
                  \* -1 if there is none
    ptimer,       \* Visualization::ptimer and the Timer it points to
    num_calls,    \* the static num_calls of Visualization::Play
    deposited,    \* history: the sizes handed to Play since the last Open
    kth,          \* history: the number of calls of Play since the last Open
    plays,        \* the calls of Play made on this output so far
    mutex,        \* Visualization::mutex: "free", or the thread that holds it
    last          \* history: the event this step handled, if any

vars == <<max_clients, clients, conn, reaper, listening, pserver, pvis, pc,
          task, phase, nextId, budget, watch, closedAge, ptimer, num_calls,
          deposited, kth, plays, mutex, last>>

serverVars == <<max_clients, clients, conn, reaper, nextId, budget, watch,
                closedAge>>
facadeVars == <<pserver, pvis, pc, task, phase>>
visVars == <<ptimer, num_calls, deposited, kth, plays, mutex>>

\* ----------------------------------------------------------------- helpers

Min(a, b) == IF a < b THEN a ELSE b

Range(s) == {s[i] : i \in 1..Len(s)}

\* the next n bytes the peers send
Fresh(n) == [i \in 1..n |-> MaxBytes - budget + i]

IsPrefix(s, t) == Len(s) <= Len(t) /\ SubSeq(t, 1, Len(s)) = s

\* a descriptor accept() has not returned yet
\* fd: the descriptor ("none", "open", "closed"); closed, buffer: the
\* object's fields; rd, wr: the interest its SocketEvent has scheduled;
\* owed: the bytes read from the peer that have not been written back yet
\* (<<0>> once a write sent anything else); orderly: the peer has never
\* sent more while an echo was still due; closes: how many times the
\* descriptor's owner asked for it to be closed (2 stands for twice or more)
NoConn ==
    [fd |-> "none", closed |-> FALSE, rd |-> FALSE, wr |-> FALSE,
     buffer |-> <<>>, owed |-> <<>>, orderly |-> TRUE, closes |-> 0]

\* what is left of a client once its object is freed: the descriptor
Freed(k) == [NoConn EXCEPT !.fd = k.fd, !.closes = k.closes]

\* the peer's view of the echo stream after the server read data
OwedAfterRead(owed, data) ==
    IF owed = <<0>> THEN owed ELSE owed \o data

\* ... and after the server wrote out
OwedAfterWrite(owed, out) ==
    IF owed # <<0>> /\ IsPrefix(out, owed)
    THEN SubSeq(owed, Len(out) + 1, Len(owed))
    ELSE <<0>>

\* ptimer: null, or the Timer: started, and bytes, the sizes added to it
NoTimer == [open |-> FALSE, started |-> FALSE, bytes |-> 0]

\* op: the handler or branch; c: the client; res: what its system call
\* returned; hup: the event carried the HANGUP flag.  Only the handlers
\* <<op>> and the results <<op, res>> named in watch are recorded.
NoEvent == [op |-> "none", c |-> 0, res |-> "none", hup |-> FALSE]

Event(op, c, res, hup) ==
    IF <<op>> \in watch \/ <<op, res>> \in watch
    THEN [op |-> op, c |-> c, res |-> res, hup |-> hup]
    ELSE NoEvent

\* ------------------------------------------------- VisualizationClient

\* BufferedSocket::Close(): abandons the socket event (no interest left)
\* and closes the descriptor; a no-op on a socket already closed
Close(k) ==
    [k EXCEPT !.fd = "closed", !.rd = FALSE, !.wr = FALSE,
              !.closes = Min(@ + 1, 2)]

\* VisualizationClient::VisualizationClient: BufferedSocket takes the
\* descriptor and schedules a read; closed(false); buffer empty
NewClient ==
    [NoConn EXCEPT !.fd = "open", !.rd = TRUE]

\* a destructor that closes the socket without looking at closed
ClientDtorAlways(k) ==
    [Close(k) EXCEPT !.closed = TRUE]

\* VisualizationClient::~VisualizationClient
ClientDtor(k) ==
    IF ~k.closed THEN [Close(k) EXCEPT !.closed = TRUE] ELSE k

\* VisualizationClient::OnSocketClosed
OnSocketClosed(k) ==
    Close([k EXCEPT !.rd = FALSE, !.wr = FALSE, !.closed = TRUE])

\* VisualizationClient::OnSocketError: logs, nothing else
OnSocketError(k) == k

\* an OnSocketInput that queues the input and schedules no write
OnSocketInputNoWrite(k, data) ==
    [k EXCEPT !.buffer = @ \o data]

\* VisualizationClient::OnSocketInput: append the input to buffer, consume
\* it, schedule a write, return PAUSE
OnSocketInput(k, data) ==
    [k EXCEPT !.buffer = @ \o data, !.wr = TRUE]

\* BufferedSocket::OnSocketReady: error/hangup close the socket; otherwise
\* one non-blocking read, whose result res is data, end of stream,
\* would-block, a peer-closed error or another error
BufferedSocketOnSocketReady(k, flags, res) ==
    IF flags \cap {ERROR, HANGUP} # {} THEN OnSocketClosed(k)
    ELSE CASE res.kind = "data" ->
                [OnSocketInput([k EXCEPT !.owed = OwedAfterRead(@, res.data),
                                         !.orderly = @ /\ k.wr = FALSE],
                               res.data)
                   EXCEPT !.rd = TRUE]
           [] res.kind = "wouldblock" -> [k EXCEPT !.rd = TRUE]
           [] res.kind \in {"eof", "closed"} -> OnSocketClosed(k)
           [] OTHER -> OnSocketError(k)

\* a write branch that marks the client closed on a failed write and
\* leaves the socket as it is
OnSocketWritableNoClose(k, res) ==
    CASE res.kind = "wouldblock" -> [k EXCEPT !.wr = TRUE]
      [] res.kind \in {"closed", "error"} -> [k EXCEPT !.closed = TRUE]
      [] OTHER ->
            [k EXCEPT !.owed = OwedAfterWrite(@, SubSeq(k.buffer, 1, res.n)),
                      !.buffer = <<>>,
                      !.wr = FALSE]

\* a write branch that takes would-block for a failure
OnSocketWritableNoRetry(k, res) ==
    CASE res.kind \in {"wouldblock", "closed", "error"} ->
            Close([k EXCEPT !.closed = TRUE])
      [] OTHER ->
            [k EXCEPT !.owed = OwedAfterWrite(@, SubSeq(k.buffer, 1, res.n)),
                      !.buffer = <<>>,
                      !.wr = FALSE]

\* a write branch that takes every failure but a closed peer for a reason
\* to try again
OnSocketWritableRetries(k, res) ==
    CASE res.kind \in {"wouldblock", "error"} -> [k EXCEPT !.wr = TRUE]
      [] res.kind = "closed" -> Close([k EXCEPT !.closed = TRUE])
      [] OTHER ->
            [k EXCEPT !.owed = OwedAfterWrite(@, SubSeq(k.buffer, 1, res.n)),
                      !.buffer = <<>>,
                      !.wr = FALSE]

\* the write branch of VisualizationClient::OnSocketReady; res is the
\* result of GetSocket().Write(&buffer[0], buffer.size())
OnSocketWritable(k, res) ==
    CASE res.kind = "wouldblock" -> [k EXCEPT !.wr = TRUE]
      [] res.kind \in {"closed", "error"} -> Close([k EXCEPT !.closed = TRUE])
      [] OTHER ->
            [k EXCEPT !.owed = OwedAfterWrite(@, SubSeq(k.buffer, 1, res.n)),
                      !.buffer = <<>>,
                      !.wr = FALSE]

\* the hangup branch of VisualizationClient::OnSocketReady
OnSocketHangup(k) ==
    Close([k EXCEPT !.closed = TRUE, !.rd = FALSE, !.wr = FALSE])

\* VisualizationClient::OnSocketReady
OnSocketReady(k, flags, res) ==
    IF READ \in flags THEN BufferedSocketOnSocketReady(k, flags, res)
    ELSE IF WRITE \in flags THEN OnSocketWritable(k, res)
    ELSE IF HANGUP \in flags THEN OnSocketHangup(k)
    ELSE k

\* SocketEvent: the flags the loop can deliver are the scheduled ones plus
\* the implicit ERROR and HANGUP
Deliverable(k) ==
    {f \in SUBSET {READ, WRITE, HANGUP, ERROR} :
        /\ f # {}
        /\ READ \in f => k.rd
        /\ WRITE \in f => k.wr}

\* what the system call made by the handler can return
ReadResults ==
    {[kind |-> "data", data |-> Fresh(n)] : n \in 1..budget}
      \cup {[kind |-> x] : x \in {"wouldblock", "eof", "closed", "error"}}

WriteResults(k) ==
    {[kind |-> "wrote", n |-> n] : n \in 1..Len(k.buffer)}
      \cup {[kind |-> x] : x \in {"wouldblock", "closed", "error"}}

Results(k, flags) ==
    IF READ \in flags /\ flags \cap {ERROR, HANGUP} = {} THEN ReadResults
    ELSE IF READ \notin flags /\ WRITE \in flags THEN WriteResults(k)
    ELSE {[kind |-> "none"]}

\* the branch of OnSocketReady taken and the result of its system call,
\* for the record of the last event
Branch(flags) ==
    IF READ \in flags THEN "read"
    ELSE IF WRITE \in flags THEN "write"
    ELSE IF HANGUP \in flags THEN "hangup"
    ELSE "other"

Outcome(k, res) ==
    IF res.kind = "wrote"
    THEN (IF res.n = Len(k.buffer) THEN "full" ELSE "partial")
    ELSE res.kind

\* once the descriptor is closed there is no peer left to owe an echo to
Settle(k) ==
    IF k.fd = "closed" THEN [k EXCEPT !.owed = <<>>, !.orderly = TRUE] ELSE k

Spent(res) == IF res.kind = "data" THEN Len(res.data) ELSE 0

\* the age of the oldest closed client still in the list starts at 0
AgeAfter(cs, cn) ==
    IF <<"age">> \in watch /\ \E c \in Range(cs) : cn[c].closed
    THEN (IF closedAge = -1 THEN 0 ELSE closedAge)
    ELSE -1

\* the event loop delivers a readiness event to client c
SocketReady(c) ==
    /\ pserver
    /\ c \in Range(clients)
    /\ conn[c].fd = "open"
    /\ \E flags \in Deliverable(conn[c]) :
         \E res \in Results(conn[c], flags) :
            /\ conn' = [conn EXCEPT ![c] = Settle(OnSocketReady(@, flags, res))]
            /\ budget' = budget - Spent(res)
            /\ closedAge' = AgeAfter(clients, conn')
            /\ last' = Event(Branch(flags), c, Outcome(conn[c], res),
                             HANGUP \in flags)
    /\ UNCHANGED <<max_clients, clients, reaper, nextId, listening, watch>>
    /\ UNCHANGED facadeVars
    /\ UNCHANGED visVars

\* ------------------------------------------------- VisualizationServer

\* OnAccept returns without taking the socket: the UniqueSocketDescriptor
\* closes it as it goes out of scope
Rejected(k) == [k EXCEPT !.fd = "closed", !.closes = 1]

\* an accept that makes room by closing the oldest client when it rejects
OnAcceptEvicts ==
    /\ pserver
    /\ listening
    /\ nextId <= MaxConns
    /\ IF max_clients # 0 /\ Len(clients) > max_clients
       THEN /\ conn' = [conn EXCEPT ![nextId] = Rejected(@),
                                    ![clients[1]] = OnSocketClosed(@)]
            /\ UNCHANGED <<clients, reaper>>
            /\ last' = Event("accept", nextId, "rejected", FALSE)
       ELSE /\ clients' = Append(clients, nextId)
            /\ conn' = [conn EXCEPT ![nextId] = NewClient]
            /\ reaper' = ReapInterval
            /\ last' = Event("accept", nextId, "inserted", FALSE)
    /\ nextId' = nextId + 1
    /\ UNCHANGED <<max_clients, budget, closedAge, listening, watch>>
    /\ UNCHANGED facadeVars
    /\ UNCHANGED visVars

\* an accept that rejects once the list holds max_clients clients
OnAcceptAtLimit ==
    /\ pserver
    /\ listening
    /\ nextId <= MaxConns
    /\ IF max_clients # 0 /\ Len(clients) >= max_clients
       THEN /\ conn' = [conn EXCEPT ![nextId] = Rejected(@)]
            /\ UNCHANGED <<clients, reaper>>
            /\ last' = Event("accept", nextId, "rejected", FALSE)
       ELSE /\ clients' = Append(clients, nextId)
            /\ conn' = [conn EXCEPT ![nextId] = NewClient]
            /\ reaper' = ReapInterval
            /\ last' = Event("accept", nextId, "inserted", FALSE)
    /\ nextId' = nextId + 1
    /\ UNCHANGED <<max_clients, budget, closedAge, listening, watch>>
    /\ UNCHANGED facadeVars
    /\ UNCHANGED visVars

\* VisualizationServer::OnAccept
OnAccept ==
    /\ pserver
    /\ listening
    /\ nextId <= MaxConns
    /\ IF max_clients # 0 /\ Len(clients) > max_clients
       THEN /\ conn' = [conn EXCEPT ![nextId] = Rejected(@)]
            /\ UNCHANGED <<clients, reaper>>
            /\ last' = Event("accept", nextId, "rejected", FALSE)
       ELSE /\ clients' = Append(clients, nextId)
            /\ conn' = [conn EXCEPT ![nextId] = NewClient]
            /\ reaper' = ReapInterval
            /\ last' = Event("accept", nextId, "inserted", FALSE)
    /\ nextId' = nextId + 1
    /\ UNCHANGED <<max_clients, budget, closedAge, listening, watch>>
    /\ UNCHANGED facadeVars
    /\ UNCHANGED visVars

\* a scan that erases every client, closed or not
ErasedAll(cs) == Range(cs)

\* the scan of VisualizationServer::ReapClients: the clients it erases
Erased(cs) == {c \in Range(cs) : conn[c].closed}

\* a reap that schedules the next one whatever is left in the list
ReapClientsAlways ==
    /\ pserver
    /\ reaper = 0
    /\ clients' = SelectSeq(clients, LAMBDA c : c \notin Erased(clients))
    /\ conn' = [c \in Ids |->
                  IF c \in Erased(clients)
                  THEN Freed(ClientDtor(conn[c])) ELSE conn[c]]
    /\ reaper' = ReapInterval
    /\ closedAge' = -1
    /\ last' = Event("reap", 0, "none", FALSE)
    /\ UNCHANGED <<max_clients, nextId, budget, listening, watch>>
    /\ UNCHANGED facadeVars
    /\ UNCHANGED visVars

\* VisualizationServer::ReapClients, run when the reaper timer expires
ReapClients ==
    /\ pserver
    /\ reaper = 0
    /\ clients' = SelectSeq(clients, LAMBDA c : c \notin Erased(clients))
    /\ conn' = [c \in Ids |->
                  IF c \in Erased(clients)
                  THEN Freed(ClientDtor(conn[c])) ELSE conn[c]]
    /\ reaper' = IF clients' # <<>> THEN ReapInterval ELSE -1
    /\ closedAge' = -1
    /\ last' = Event("reap", 0, "none", FALSE)
    /\ UNCHANGED <<max_clients, nextId, budget, listening, watch>>
    /\ UNCHANGED facadeVars
    /\ UNCHANGED visVars

\* one time unit passes; a due timer runs before time moves on
Tick ==
    /\ reaper # 0
    /\ reaper' = IF reaper > 0 THEN reaper - 1 ELSE reaper
    /\ closedAge' = IF closedAge >= 0
                    THEN Min(closedAge + 1, ReapInterval + 1)
                    ELSE closedAge
    /\ last' = NoEvent
    /\ UNCHANGED <<max_clients, clients, conn, nextId, budget, listening,
                   watch>>
    /\ UNCHANGED facadeVars
    /\ UNCHANGED visVars

\* ------------------------------------------------- VisualizationOutput

\* VisualizationOutput::Enable up to the wait inside BlockingCall
Enable ==
    /\ pc = "idle"
    /\ phase = "off"
    /\ pserver
    /\ pc' = "enable"
    /\ task' = "open"
    /\ phase' = "on"
    /\ last' = NoEvent
    /\ UNCHANGED <<pserver, pvis, listening>>
    /\ UNCHANGED serverVars
    /\ UNCHANGED visVars

\* a Disable that posts Open, as its comment says
DisableOpens ==
    /\ pc = "idle"
    /\ pserver
    /\ pc' = "disable"
    /\ task' = "open"
    /\ last' = NoEvent
    /\ UNCHANGED <<pserver, pvis, phase, listening>>
    /\ UNCHANGED serverVars
    /\ UNCHANGED visVars

\* VisualizationOutput::Disable up to the wait inside BlockingCall
Disable ==
    /\ pc = "idle"
    /\ pserver
    /\ pc' = "disable"
    /\ task' = "close"
    /\ last' = NoEvent
    /\ UNCHANGED <<pserver, pvis, phase, listening>>
    /\ UNCHANGED serverVars
    /\ UNCHANGED visVars

\* the I/O thread runs the task BlockingCall posted, pserver->Open() or
\* pserver->Close() of ServerSocket, which releases the caller:
\* Enable/Disable returns
RunTask ==
    /\ task \in {"open", "close"}
    /\ listening' = (task = "open")
    /\ task' = "none"
    /\ pc' = "idle"
    /\ phase' = IF pc = "disable" THEN "off" ELSE phase
    /\ last' = NoEvent
    /\ UNCHANGED <<pserver, pvis>>
    /\ UNCHANGED serverVars
    /\ UNCHANGED visVars

\* a destructor that frees the shared state first
DtorVisFirst ==
    /\ pc = "idle"
    /\ pserver
    /\ pvis' = FALSE
    /\ pc' = "dtor"
    /\ last' = NoEvent
    /\ UNCHANGED <<pserver, task, phase, listening>>
    /\ UNCHANGED serverVars
    /\ UNCHANGED visVars

\* VisualizationOutput::~VisualizationOutput, pserver = 0: the server is
\* destroyed, and its members with it: every client, the reaper, the
\* listening socket
DtorServer ==
    /\ pc = "idle"
    /\ pserver
    /\ pserver' = FALSE
    /\ conn' = [c \in Ids |->
                  IF c \in Range(clients) THEN Freed(ClientDtor(conn[c])) ELSE conn[c]]
    /\ clients' = <<>>
    /\ reaper' = -1
    /\ listening' = FALSE
    /\ closedAge' = -1
    /\ pc' = "dtor"
    /\ last' = NoEvent
    /\ UNCHANGED <<max_clients, nextId, budget, watch, pvis, task, phase>>
    /\ UNCHANGED visVars

\* VisualizationOutput::~VisualizationOutput, pvis = 0
DtorVis ==
    /\ pc = "dtor"
    /\ pvis
    /\ pvis' = FALSE
    /\ pc' = "done"
    /\ ptimer' = NoTimer
    /\ last' = NoEvent
    /\ UNCHANGED <<pserver, task, phase, listening, num_calls, deposited,
                   kth, plays, mutex>>
    /\ UNCHANGED serverVars

\* ------------------------------------------------------- Visualization

\* Visualization::Close: ptimer = 0
VisualizationClose(t) == NoTimer

\* an Open that keeps the Timer it finds
VisualizationOpenKeeps(t) ==
    IF t.open THEN t ELSE [open |-> TRUE, started |-> FALSE, bytes |-> 0]

\* Visualization::Open: ptimer.reset(new Timer(audio_format))
VisualizationOpen(t) ==
    [open |-> TRUE, started |-> FALSE, bytes |-> 0]

\* Visualization::Play up to the report: Start() unless started, Add(size)
VisualizationPlay(t, size) ==
    [t EXCEPT !.started = TRUE, !.bytes = @ + size]

\* ... and its return value
PlayReturn(size) == size

\* VisualizationOutput::Open, on the thread that calls Enable and Disable.
\* Neither Open nor Close nor Play of Visualization takes the mutex the
\* class declares: they run, and change ptimer, with mutex as they find it.
Open ==
    /\ pc = "idle"
    /\ pvis
    /\ ptimer' = VisualizationOpen(ptimer)
    /\ deposited' = 0
    /\ kth' = 0
    /\ last' = NoEvent
    /\ UNCHANGED <<num_calls, plays, mutex, listening>>
    /\ UNCHANGED serverVars
    /\ UNCHANGED facadeVars

\* VisualizationOutput::Close
CloseOutput ==
    /\ pc = "idle"
    /\ pvis
    /\ ptimer' = VisualizationClose(ptimer)
    /\ deposited' = 0
    /\ kth' = 0
    /\ last' = NoEvent
    /\ UNCHANGED <<num_calls, plays, mutex, listening>>
    /\ UNCHANGED serverVars
    /\ UNCHANGED facadeVars

\* VisualizationOutput::Play; the output thread calls it between Open and
\* Close only.  The record of the call: c is the size asked for, res the
\* size returned, hup whether the lead was reported.
Play ==
    /\ pc = "idle"
    /\ pvis
    /\ ptimer.open
    /\ plays < MaxPlays
    /\ \E size \in 1..MaxSize :
         /\ ptimer' = VisualizationPlay(ptimer, size)
         /\ deposited' = deposited + size
         /\ last' = Event("play", size, PlayReturn(size),
                          (num_calls + 1) % ReportEvery = 0)
    /\ num_calls' = num_calls + 1
    /\ kth' = kth + 1
    /\ plays' = plays + 1
    /\ UNCHANGED <<mutex, listening>>
    /\ UNCHANGED serverVars
    /\ UNCHANGED facadeVars

\* ------------------------------------------------------- specification

\* VisualizationOutput::VisualizationOutput: the shared state, then the
\* server, which reads max_clients from the configuration.  num_calls is
\* static: it is initialised once per process and n is the number of calls
\* of Visualization::Play the process has made before this output is
\* constructed (on an output destroyed since, or on another one).
ConstructAfter(n) ==
    /\ max_clients \in CfgClients
    /\ clients = <<>>
    /\ conn = [c \in Ids |-> NoConn]
    /\ reaper = -1
    /\ listening = FALSE
    /\ pserver = TRUE
    /\ pvis = TRUE
    /\ pc = "idle"
    /\ task = "none"
    /\ phase = "off"
    /\ nextId = 1
    /\ budget = MaxBytes
    /\ closedAge = -1
    /\ ptimer = NoTimer
    /\ num_calls = n
    /\ deposited = 0
    /\ kth = 0
    /\ plays = 0
    /\ mutex = "free"
    /\ last = NoEvent

\* the first output of the process
Construct == ConstructAfter(0)

Init == Construct /\ watch = {}

InitServer == Construct /\ watch = {<<"accept">>, <<"reap">>}

InitRead == Construct /\ watch = {<<"read">>}

InitWrite == Construct /\ watch = {<<"write">>}

InitBlock == Construct /\ watch = {<<"write", "wouldblock">>}

InitAge == Construct /\ watch = {<<"age">>}

InitFail == Construct /\ watch = {<<"write", "closed">>, <<"write", "error">>}

InitPlay == Construct /\ watch = {<<"play">>}

\* an output constructed when the process has played no chunk yet, or so
\* many that the next report is one call away or two
InitReport ==
    /\ \E n \in {0, ReportEvery - 2, ReportEvery - 1} : ConstructAfter(n)
    /\ watch = {<<"play">>}

Next ==
    \/ OnAccept
    \/ ReapClients
    \/ \E c \in Ids : SocketReady(c)
    \/ Tick
    \/ Enable
    \/ Disable
    \/ RunTask
    \/ DtorServer
    \/ DtorVis

\* the thread that drives the output: Enable, Open, Play, Close, Disable
\* and the destructor, with the task it hands to the I/O thread.  The
\* handlers of the I/O thread neither read nor write the shared state.
NextOutput ==
    \/ Enable
    \/ Disable
    \/ RunTask
    \/ Open
    \/ Play
    \/ CloseOutput
    \/ DtorServer
    \/ DtorVis

\* the program
Spec == Init /\ [][Next]_vars

\* the program, with the record of the accepts and reaps
SpecServer == InitServer /\ [][Next]_vars

\* the program, with the record of the events handled by the read branch
SpecRead == InitRead /\ [][Next]_vars

\* the program, with the record of the events handled by the write branch
SpecWrite == InitWrite /\ [][Next]_vars

\* the program, with the record of the writes that would block
SpecBlock == InitBlock /\ [][Next]_vars

\* the program, with the age of the oldest closed client
SpecAge == InitAge /\ [][Next]_vars

\* the program, with the record of the writes that failed
SpecFail == InitFail /\ [][Next]_vars

\* the output's thread, with the record of the calls of Play
SpecPlay == InitPlay /\ [][NextOutput]_vars

\* the same, in a process that may have played before
SpecReport == InitReport /\ [][NextOutput]_vars

\* ---------------------------------------------------------------- claims

InList == Range(clients)

Active(c) == c \in InList /\ ~conn[c].closed

\* C1: with max_clients = N > 0 the client list never holds more than N
\* connections, whatever accepts, closures and reaps came before.
C1_AtMostMaxClients ==
    max_clients > 0 => Len(clients) <= max_clients

\* C2: a reap erases every client that is closed when it scans, releases
\* the sockets of those it erases and erases no client that is still
\* active; a client leaves the list only in a reap or when the server is
\* destroyed.
C2_ReapErasesExactlyClosed ==
    [][/\ last'.op = "reap" =>
            /\ Range(clients') = {c \in InList : ~conn[c].closed}
            /\ \A c \in InList : conn[c].closed => conn'[c].fd = "closed"
       /\ \A c \in InList :
            c \notin Range(clients') => last'.op = "reap" \/ ~pserver'
      ]_vars

\* a reap has just erased a closed client and kept an active one
C2_Witness ==
    /\ last.op = "reap"
    /\ max_clients = 0
    /\ \E c \in InList : ~conn[c].closed
    /\ \E c \in Ids : c < nextId /\ c \notin InList /\ conn[c].fd = "closed"

\* C3: a client that is closed stays closed; whenever a client in the list
\* is closed its descriptor is closed and neither read nor write interest
\* is scheduled, and no later step changes anything of it.
C3_ClosedIsTerminal ==
    /\ [](\A c \in InList :
            conn[c].closed =>
                conn[c].fd = "closed" /\ ~conn[c].rd /\ ~conn[c].wr)
    /\ [][\A c \in InList :
            conn[c].closed /\ c \in Range(clients') => conn'[c] = conn[c]]_vars

\* a client closed by a failed write, with bytes still in its buffer
C3_Witness ==
    \E c \in InList : conn[c].closed /\ conn[c].buffer # <<>>

\* C4: for a peer that waits for its echo before it sends more, once the
\* client's buffer has been emptied every byte read from the peer has been
\* written back, in order and once, and no write interest is left.
C4_EchoRoundTrip ==
    \A c \in InList :
        ~conn[c].closed /\ conn[c].orderly /\ conn[c].buffer = <<>> =>
            conn[c].owed = <<>> /\ ~conn[c].wr

\* C5: a writable event whose write would block leaves the client active,
\* its buffer as it was and write interest scheduled, and changes nothing
\* else.
C5_WouldBlockKeepsPending ==
    [][last'.op = "write" /\ last'.res = "wouldblock" =>
          /\ clients' = clients
          /\ ~conn'[last'.c].closed
          /\ conn'[last'.c].fd = "open"
          /\ conn'[last'.c].wr
          /\ conn'[last'.c].buffer = conn[last'.c].buffer
      ]_vars

\* a write has just blocked, and the whole chunk is still queued
C5_Witness ==
    /\ last.op = "write"
    /\ last.res = "wouldblock"
    /\ Active(last.c)
    /\ conn[last.c].wr
    /\ Len(conn[last.c].buffer) = MaxBytes

\* C6: once Disable has returned, and until Enable is called again, no
\* client in the list is active.
C6_NoActiveAfterDisable ==
    pc = "idle" /\ phase = "off" => \A c \in InList : conn[c].closed

\* C7: the shared state is freed only after the server and all its clients
\* are gone and every accepted socket is closed; while the server lives,
\* so does the shared state.
C7_ServerGoesFirst ==
    /\ pserver => pvis
    /\ ~pvis => /\ clients = <<>>
                /\ \A c \in Ids : conn[c].fd # "open"

\* the facade is destroyed, and a client had been accepted
C7_Witness ==
    ~pvis /\ ~pserver /\ \E c \in Ids : conn[c].fd = "closed"

C9_ReapedWithinInterval ==
    closedAge <= ReapInterval

\* C10: after a read failed with an error that is neither would-block nor
\* peer-closed, the client is closed.
C10_ReadErrorCloses ==
    last.op = "read" /\ last.res = "error" => conn[last.c].closed

\* C11: a step of the I/O thread other than a reap or the server's
\* destruction (a readiness event delivered to one client, whatever its
\* flags and the result of its system call, or an accept) changes at most
\* one connection, so no other client's closed flag, buffer or scheduled
\* interest; an accept that rejects the new socket changes no client of the
\* list and leaves the list as it was.
C11_OneConnectionPerEvent ==
    [][/\ last'.op # "reap" /\ pserver' =>
            Cardinality({c \in Ids : conn'[c] # conn[c]}) <= 1
       /\ last'.op = "accept" /\ last'.res = "rejected" =>
            /\ clients' = clients
            /\ \A c \in InList : conn'[c] = conn[c]
            /\ conn'[last'.c].fd = "closed"
      ]_vars

\* a socket has just been rejected while the list holds a closed client and
\* an active one with an echo still queued
C11_Witness ==
    /\ last.op = "accept"
    /\ last.res = "rejected"
    /\ \E c \in InList : conn[c].closed
    /\ \E c \in InList : ~conn[c].closed /\ conn[c].buffer # <<>> /\ conn[c].wr

\* C12: over its lifetime a connection's socket is closed exactly once: a
\* descriptor is closed exactly if one close was asked for, never two,
\* whether the client was closed by an event and destroyed later or was
\* still active when destroyed, and every client that has left the list has
\* its descriptor closed.  Disable can be called again right after Disable
\* has returned, and that second call, from its start to its return,
\* changes nothing but the position of the control thread.
C12_ClosedOnce ==
    /\ [](\A c \in Ids :
            /\ conn[c].closes = (IF conn[c].fd = "closed" THEN 1 ELSE 0)
            /\ c < nextId /\ c \notin InList => conn[c].fd = "closed")
    /\ [](pc = "idle" /\ phase = "off" /\ pserver => ENABLED Disable)
    /\ [][phase = "off" /\ {pc, pc'} = {"idle", "disable"} =>
            /\ UNCHANGED serverVars
            /\ UNCHANGED visVars
            /\ UNCHANGED <<listening, pserver, pvis, phase>>
            /\ ~listening'
      ]_vars

\* during a second Disable in a row, a reap has just destroyed a client
\* that an event had closed before
C12_Witness ==
    /\ last.op = "reap"
    /\ max_clients = 0
    /\ pc = "disable"
    /\ phase = "off"
    /\ \E c \in Ids :
         c < nextId /\ c \notin InList /\ conn[c].fd = "closed"
           /\ conn[c].closes = 1

\* C13: every Play made while the shared state is open returns the size it
\* was given; while open, the timer is started exactly if something has
\* been deposited since the last Open, and the bytes it has accumulated are
\* the sum of the sizes deposited since that Open (Open starts a new record,
\* not started and with no bytes).
C13_PlayAcceptsAndAccumulates ==
    /\ last.op = "play" => last.res = last.c /\ ptimer.open /\ ptimer.started
    /\ ptimer.open =>
          /\ ptimer.bytes = deposited
          /\ ptimer.started <=> deposited > 0

\* a Play has just returned, after an Open that replaced a record that had
\* been played into
C13_Witness ==
    /\ last.op = "play"
    /\ last.c = MaxSize
    /\ num_calls = MaxPlays
    /\ ptimer.bytes < num_calls

\* a step taken by the thread that calls Enable, Disable and the
\* destructor: it moves that thread to a position other than idle (the
\* step back to idle is the I/O thread's, which releases the caller)
ControlStep == pc' # pc /\ pc' # "idle"

\* C14: after construction the clients are touched by the I/O thread only,
\* their destruction included: a step of the control thread changes
\* neither the list nor any client or its socket; all it does to the
\* server is post the task of Enable or Disable.
C14_OnlyIOThreadTouches ==
    [][ControlStep => UNCHANGED <<clients, conn>>]_vars

NumActive == Cardinality({c \in InList : ~conn[c].closed})

\* C16: the capacity test of an accept counts the active clients only: no
\* socket is rejected while at most max_clients clients are active, closed
\* clients that still wait in the list for the next reap notwithstanding.
C16_RejectCountsActiveOnly ==
    [][last'.op = "accept" /\ last'.res = "rejected" =>
          NumActive > max_clients]_vars

\* C17: between handlers the reaper is pending exactly when the list is
\* not empty: an accept that inserts schedules it one interval ahead, a
\* reap that leaves clients behind schedules it one interval ahead, a reap
\* that empties the list leaves it idle, and an idle reaper is scheduled by
\* nothing but an accept.
C17_ReaperPendingIffClients ==
    /\ [](reaper # -1 <=> clients # <<>>)
    /\ [][/\ last'.op = "accept" /\ last'.res = "inserted" =>
                reaper' = ReapInterval
          /\ last'.op = "reap" =>
                reaper' = (IF clients' # <<>> THEN ReapInterval ELSE -1)
          /\ reaper = -1 /\ reaper' # -1 => last'.op = "accept"
         ]_vars

\* a reap has just emptied the list and left the reaper idle, while the
\* listener is still open
C17_Witness ==
    /\ last.op = "reap"
    /\ clients = <<>>
    /\ reaper = -1
    /\ listening
    /\ \E c \in Ids : conn[c].fd = "closed" /\ conn[c].closes = 1

\* C18: a writable event whose write took the whole buffer empties the
\* buffer and cancels write interest; one whose write took fewer bytes than
\* the buffer holds keeps the bytes not written, in order, and leaves write
\* interest scheduled.
C18_PartialWriteKeepsRest ==
    [][/\ last'.op = "write" /\ last'.res = "full" =>
            conn'[last'.c].buffer = <<>> /\ ~conn'[last'.c].wr
       /\ last'.op = "write" /\ last'.res = "partial" =>
            /\ conn'[last'.c].wr
            /\ \E n \in 1..(Len(conn[last'.c].buffer) - 1) :
                  conn'[last'.c].buffer =
                      SubSeq(conn[last'.c].buffer, n + 1,
                             Len(conn[last'.c].buffer))
      ]_vars

\* C19: a writable event whose write fails with anything but would-block,
\* a peer that is gone included, leaves the client closed, its descriptor
\* closed and no interest scheduled; the server does not hear of it: the
\* client stays in the list, and the list, the other clients, the reaper
\* and the listener are as they were.
C19_WriteFailureCloses ==
    [][last'.op = "write" /\ last'.res \in {"closed", "error"} =>
          /\ conn'[last'.c].closed
          /\ conn'[last'.c].fd = "closed"
          /\ ~conn'[last'.c].rd /\ ~conn'[last'.c].wr
          /\ clients' = clients /\ last'.c \in InList
          /\ \A d \in Ids \ {last'.c} : conn'[d] = conn[d]
          /\ UNCHANGED <<reaper, listening, pserver, nextId>>
      ]_vars

\* a write has just failed on one client while another one is active with
\* its echo queued
C19_Witness ==
    /\ last.op = "write"
    /\ last.res = "error"
    /\ conn[last.c].closed
    /\ conn[last.c].buffer # <<>>
    /\ \E d \in InList \ {last.c} : ~conn[d].closed /\ conn[d].wr

\* C20: after a readiness event that carried the hangup flag, alone or
\* together with read or write readiness, the client is closed, its
\* descriptor is closed and neither read nor write interest is scheduled.
C20_HangupCloses ==
    last.op \in {"read", "write", "hangup"} /\ last.hup =>
        /\ conn[last.c].closed
        /\ conn[last.c].fd = "closed"
        /\ ~conn[last.c].rd /\ ~conn[last.c].wr

\* C21: while a write is pending on a client (buffer not empty, write
\* interest scheduled) nothing that is read from the peer is appended to
\* the buffer: a read event on such a client leaves the buffer as it was.
C21_NoAppendWhilePending ==
    [][/\ last'.op = "read"
       /\ conn[last'.c].buffer # <<>>
       /\ conn[last'.c].wr
       => conn'[last'.c].buffer = conn[last'.c].buffer]_vars

\* C22: the lead is reported on the k-th call of Play after an Open exactly
\* when k is a multiple of ReportEvery, whatever was played before that
\* Open or on another output of the process.
C22_ReportEveryNthSinceOpen ==
    last.op = "play" => (last.hup <=> kth % ReportEvery = 0)

\* C23: the shared state is changed by Open, Play and Close only while its
\* mutex is held by the thread that changes it.
C23_MutationsHoldMutex ==
    [][ptimer' # ptimer /\ pvis' => mutex = "output"]_vars

\* C24: between handlers, every active client has write interest scheduled
\* exactly when its buffer is not empty: no writable event finds an empty
\* buffer, and no queued byte is left without a pending write.
C24_WriteInterestIffQueued ==
    \A c \in InList :
        ~conn[c].closed => (conn[c].wr <=> conn[c].buffer # <<>>)

\* every byte has been read; one active client has a byte queued and a
\* write pending, another has nothing queued and no write pending
C24_Witness ==
    /\ budget = 0
    /\ \E c, d \in InList :
         /\ c # d
         /\ ~conn[c].closed /\ Len(conn[c].buffer) = 1 /\ conn[c].wr
         /\ ~conn[d].closed /\ conn[d].buffer = <<>> /\ ~conn[d].wr

====
